---- MODULE Spec2Model ----
(***************************************************************************)
(* lets-eat: opening-hours parsing (hours-parser.js), the congestion and   *)
(* review heuristics and the nearby-search pipeline (places.js).           *)
(*                                                                         *)
(* Conventions of the model                                                *)
(*  - JavaScript true / false / null / undefined are the strings "true",   *)
(*    "false", "null", "undefined".                                        *)
(*  - A weekday_text entry is a sequence of segments: the substrings the   *)
(*    parser can recognise ("teikyubi", "kyugyobi", "h24spaced",             *)
(*    "h24", a "H時MM分～H時MM分" range with its digits) and "other"   *)
(*    for any text it does not recognise.  The empty sequence is "".       *)
(*  - A review text is the set of the keywords and pattern alternatives   *)
(*    it contains, each named in Latin letters ("gyoretsu" is 行列); the   *)
(*    empty set is a text matching nothing, also `review.text || ''`.      *)
(*  - Ratings are in tenths of a star (4.3 is 43); 0 stands for an absent  *)
(*    rating or count, which the code maps to 0 / null with `||`.          *)
(***************************************************************************)
EXTENDS Integers, Sequences, FiniteSets

VARIABLES
    weekdayText,   \* argument of HoursParser.isCurrentlyOpen: [present, entries]
    now,           \* what new Date() returns: [day, hour, minute]
    openResult,    \* value returned by isCurrentlyOpen, "none" before the call
    place,         \* argument of estimateCongestion: a raw Places API record
    congestion,    \* level returned by estimateCongestion, "none" before the call
    reviews,       \* the reviews argument: [present, list], a review is its text
    crowdResult,   \* value returned by estimateCongestionFromReviews
    tags,          \* array returned by extractAtmosphereFromReviews
    smokingInfo,   \* value returned by extractSmokingInfo, "none" before the call
    service,       \* PlacesService was initialised (init() ran)
    filters,       \* AppState.filters as passed to searchNearby
    request,       \* the request handed to service.nearbySearch, "none" if none
    searchStatus,  \* status argument of the nearbySearch callback
    rawResults,    \* results argument of the callback: [present, list]
    places,        \* the array the promise resolved with
    errorMsg,      \* the message of the Error the promise rejected with
    settled,       \* number of times resolve or reject was called
    previous,      \* results of an earlier call with the same arguments
    isSearching,   \* AppState.isSearching
    screen,        \* the screen that has the class active
    currentLocation, \* AppState.currentLocation, "null" or a position
    appPlaces,     \* AppState.places
    toast,         \* the message of the last showToast, "none" if none
    runs,          \* the startSearch runs in flight, each at its await
    lastEnd,       \* how the last run that ended left: "results", "error"
    geoRequests,   \* number of getCurrentPosition calls made
    searchRequests, \* number of searchNearby calls made
    invocations,   \* number of startSearch calls made
    modalOpen,     \* the modal lacks the class hidden
    modalPlace,    \* id of the place openModal filled the modal with, 0 if none
    hoursRow,      \* modalHoursRow: [hidden, of], of = place its text is from
    appeal,        \* modalAppeal: [hidden, of]
    smokingRow,    \* modalSmokingRow: [hidden, of]
    pending,       \* place ids of the getPlaceDetails calls in flight
    pc             \* "start" before the operation under study ran, "done" after

hoursVars == <<weekdayText, openResult>>

congestionVars == <<place, congestion>>

reviewVars == <<reviews, crowdResult, tags, smokingInfo>>

clockVars == <<previous>>

appVars == <<isSearching, screen, currentLocation, appPlaces, toast, runs, lastEnd,
             geoRequests, searchRequests, invocations>>

modalVars == <<modalOpen, modalPlace, hoursRow, appeal, smokingRow, pending>>

uiVars == <<appVars, modalVars>>

searchVars == <<service, filters, request, searchStatus, rawResults, places,
                errorMsg, settled>>

vars == <<weekdayText, now, openResult, place, congestion, reviews,
          crowdResult, tags, smokingInfo, previous, appVars, modalVars, service, filters, request, searchStatus,
          rawResults, places, errorMsg, settled, pc>>

----------------------------------------------------------------------------
(* Bounds of the model *)

\* longest weekday_text entry, in segments
MaxSegs == 2

\* longest review list given to estimateCongestionFromReviews
MaxReviews == 6

\* longest review list given to extractAtmosphereFromReviews
MaxTagReviews == 4

\* most records in the results array of nearbySearch
MaxPlaces == 3

\* longest review list given to extractSmokingInfo
MaxSmokingReviews == 3

\* most clicks on the search and re-search buttons in a run of the app
MaxClicks == 3

\* most getPlaceDetails calls in flight at once
MaxPending == 2

----------------------------------------------------------------------------
(* Input domains: the sequences over S of length up to n *)

RECURSIVE ListsOver(_, _)
ListsOver(S, n) ==
    IF n = 0 THEN {<<>>}
    ELSE LET shorter == ListsOver(S, n - 1)
         IN  shorter \cup {Append(l, x) : l \in {m \in shorter : Len(m) = n - 1}, x \in S}

----------------------------------------------------------------------------
(* HoursParser.isCurrentlyOpen *)

Marker(k) == [kind |-> k, oh |-> 0, om |-> 0, ch |-> 0, cm |-> 0]

Range(oh, om, ch, cm) == [kind |-> "range", oh |-> oh, om |-> om, ch |-> ch, cm |-> cm]

\* text.includes(marker)
Includes(text, kind) == \E i \in 1..Len(text) : text[i].kind = kind

\* todayText.match(/(\d{1,2})時(\d{2})分?[～〜~-](\d{1,2})時(\d{2})分?/): the
\* leftmost range of the text, or "null" (as <<>>) when there is none
TimeRangeMatch(text) ==
    LET idx == {i \in 1..Len(text) : text[i].kind = "range"}
    IN  IF idx = {} THEN <<>>
        ELSE <<text[CHOOSE i \in idx : \A j \in idx : i <= j]>>

\* const googleDayIndex = dayOfWeek === 0 ? 6 : dayOfWeek - 1;
GoogleDayIndexSundayFirst(dayOfWeek) == dayOfWeek

GoogleDayIndex(dayOfWeek) == IF dayOfWeek = 0 THEN 6 ELSE dayOfWeek - 1

\* the comparison of the current time with the matched range (lines 44-61)
InRangeNoWrap(m, cur) ==
    LET openT  == m.oh * 60 + m.om
        closeT == m.ch * 60 + m.cm
    IN  cur >= openT /\ cur <= closeT

InRangeExclusive(m, cur) ==
    LET openT  == m.oh * 60 + m.om
        closeT == m.ch * 60 + m.cm
    IN  IF closeT < openT
        THEN IF cur < openT THEN cur < closeT
             ELSE cur >= openT /\ cur <= closeT + 24 * 60
        ELSE cur > openT /\ cur < closeT

InRange(m, cur) ==
    LET openT  == m.oh * 60 + m.om
        closeT == m.ch * 60 + m.cm
    IN  IF closeT < openT
        THEN IF cur < openT
             THEN cur <= (closeT + 24 * 60) - 24 * 60
             ELSE cur >= openT /\ cur <= closeT + 24 * 60
        ELSE cur >= openT /\ cur <= closeT

Bool(b) == IF b THEN "true" ELSE "false"

\* lines 30-65: the verdict for today's (non-empty) text
TodayVerdictMarkerLast(todayText, cur) ==
    LET m == TimeRangeMatch(todayText)
    IN  IF Includes(todayText, "h24spaced") \/ Includes(todayText, "h24")
        THEN "true"
        ELSE IF m # <<>> THEN Bool(InRange(m[1], cur))
        ELSE IF Includes(todayText, "teikyubi") \/ Includes(todayText, "kyugyobi")
        THEN "false"
        ELSE "null"

TodayVerdict(todayText, cur) ==
    IF Includes(todayText, "teikyubi") \/ Includes(todayText, "kyugyobi")
    THEN "false"
    ELSE IF Includes(todayText, "h24spaced") \/ Includes(todayText, "h24")
    THEN "true"
    ELSE LET m == TimeRangeMatch(todayText)
         IN  IF m # <<>> THEN Bool(InRange(m[1], cur)) ELSE "null"

\* lines 12-28: the guards before today's text is read
NoHoursClosed(wt, t) == "false"

NoHours(wt, t) == "null"

isCurrentlyOpen(wt, t) ==
    IF ~wt.present \/ Len(wt.entries) = 0 THEN NoHours(wt, t)
    ELSE LET idx == GoogleDayIndex(t.day)
             cur == t.hour * 60 + t.minute
         IN  IF idx + 1 > Len(wt.entries) \/ wt.entries[idx + 1] = <<>>
             THEN NoHours(wt, t)
             ELSE TodayVerdict(wt.entries[idx + 1], cur)

----------------------------------------------------------------------------
(* Inputs of isCurrentlyOpen *)

Ranges ==
    { Range(7, 0, 20, 0), Range(18, 0, 2, 0), Range(11, 30, 14, 0) }

Segments ==
    { Marker("teikyubi"), Marker("kyugyobi"), Marker("h24spaced"),
      Marker("h24"), Marker("other") } \cup Ranges

Texts == ListsOver(Segments, MaxSegs)

\* texts filling the other days of the week
OtherDayTexts == { <<>>, <<Marker("teikyubi")>>, <<Marker("h24")>> }

WeekList(n, k, a, b) == [i \in 1..n |-> IF i = k THEN a ELSE b]

\* a full week whose entry k is any text
FullWeeks ==
    { WeekList(7, k, a, <<Marker("other")>>) : k \in 1..7, a \in Texts }

\* lists of every length 0..7, entry k differing from the others
ShortWeeks ==
    { WeekList(n, k, a, b) : n \in 0..7, k \in 1..7,
                             a \in OtherDayTexts \cup {<<Range(7, 0, 20, 0)>>},
                             b \in OtherDayTexts }

WeekdayTexts ==
    { [present |-> FALSE, entries |-> <<>>] }
    \cup { [present |-> TRUE, entries |-> e] : e \in FullWeeks \cup ShortWeeks }

Hours == {0, 1, 2, 3, 6, 7, 10, 18, 20, 23}

Minutes == {0, 1, 30, 59}

Nows == [day : 0..6, hour : Hours, minute : Minutes]

----------------------------------------------------------------------------
(* PlacesService.estimateCongestion *)

NoWeekdayText == [present |-> FALSE, entries |-> <<>>]

\* a record of the results array of nearbySearch.  hours is what
\* place.opening_hours offers: "absent" (no object), or what isOpen() does:
\* "true", "false", "undefined", "throws".  price is price_level, -1 when
\* the field is undefined.  dist is the haversine distance in metres.  text
\* is opening_hours.weekday_text, which no line of searchNearby reads.
RawPlace(id, hours, rating, count, price, dist) ==
    [id |-> id, hours |-> hours, rating |-> rating, count |-> count,
     price |-> price, dist |-> dist, text |-> NoWeekdayText]

\* lines 256-266
TimeScore(hour, day) ==
    LET timeScore == IF (hour >= 11 /\ hour <= 13) \/ (hour >= 18 /\ hour <= 20) THEN 3
                     ELSE IF hour >= 14 /\ hour <= 17 THEN 1
                     ELSE 2
        isWeekend == day = 0 \/ day = 6
    IN  IF isWeekend THEN timeScore + 1 ELSE timeScore

\* lines 269-275
PopularityScoreInclusive(reviewCount, rating) ==
    LET popularityScore == IF reviewCount >= 500 THEN 3
                           ELSE IF reviewCount >= 100 THEN 2
                           ELSE IF reviewCount >= 30 THEN 1
                           ELSE 0
    IN  IF rating >= 43 THEN popularityScore + 1 ELSE popularityScore

PopularityScore(reviewCount, rating) ==
    LET popularityScore == IF reviewCount > 500 THEN 3
                           ELSE IF reviewCount > 100 THEN 2
                           ELSE IF reviewCount > 30 THEN 1
                           ELSE 0
    IN  IF rating >= 43 THEN popularityScore + 1 ELSE popularityScore

\* lines 279-287
Level(totalScore) ==
    IF totalScore >= 6 THEN "high"
    ELSE IF totalScore >= 4 THEN "medium"
    ELSE IF totalScore >= 2 THEN "low"
    ELSE "empty"

\* lines 247-288; t is the value of new Date() in line 248
estimateCongestion(p, t) ==
    LET reviewCount == p.count                            \* user_ratings_total || 0
        rating      == IF p.rating = 0 THEN 30 ELSE p.rating   \* rating || 3.0
    IN  Level(TimeScore(t.hour, t.day) + PopularityScore(reviewCount, rating))

RatingCounts == {0, 10, 30, 31, 100, 101, 500, 501, 600}

Ratings == {0, 30, 42, 43, 45, 50}

CongestionPlaces ==
    { RawPlace(1, "true", r, c, -1, 300) : r \in Ratings, c \in RatingCounts }

CongestionNows == [day : 0..6, hour : 0..23, minute : {0, 30}]

NoPlace == RawPlace(0, "absent", 0, 0, -1, 0)

----------------------------------------------------------------------------
(* HoursParser.estimateCongestionFromReviews *)

\* keywords.crowded: 行列 混雑 満席 待ち時間 並ぶ 人気 賑わ
CrowdedKeywords ==
    <<"gyoretsu", "konzatsu", "manseki", "machijikan", "narabu", "ninki", "nigiwa">>

\* keywords.empty: 空いて すいて ガラガラ 貸切 穴場
EmptyKeywords == <<"aite", "suite", "garagara", "kashikiri", "anaba">>

\* one inner loop (lines 89-94, 96-101): 1 at the first keyword the text
\* includes, then break
RECURSIVE KeywordHitsNoBreak(_, _, _)
KeywordHitsNoBreak(text, keywords, k) ==
    IF k > Len(keywords) THEN 0
    ELSE (IF keywords[k] \in text THEN 1 ELSE 0)
         + KeywordHitsNoBreak(text, keywords, k + 1)

RECURSIVE KeywordHits(_, _, _)
KeywordHits(text, keywords, k) ==
    IF k > Len(keywords) THEN 0
    ELSE IF keywords[k] \in text THEN 1
    ELSE KeywordHits(text, keywords, k + 1)

\* reviews.slice(0, 5)
ReviewSliceAll(list) == list

ReviewSlice(list) == SubSeq(list, 1, IF Len(list) < 5 THEN Len(list) ELSE 5)

\* the outer loop (lines 86-102): <<crowdedCount, emptyCount>>
RECURSIVE CountReviews(_, _)
CountReviews(list, i) ==
    IF i > Len(list) THEN <<0, 0>>
    ELSE LET rest == CountReviews(list, i + 1)
         IN  <<KeywordHits(list[i], CrowdedKeywords, 1) + rest[1],
               KeywordHits(list[i], EmptyKeywords, 1) + rest[2]>>

estimateCongestionFromReviews(r) ==
    IF ~r.present \/ Len(r.list) = 0 THEN "null"
    ELSE LET c            == CountReviews(ReviewSlice(r.list), 1)
             crowdedCount == c[1]
             emptyCount   == c[2]
         IN  IF crowdedCount > emptyCount /\ crowdedCount >= 2 THEN "crowded"
             ELSE IF emptyCount > crowdedCount /\ emptyCount >= 2 THEN "empty"
             ELSE "null"

CrowdTexts ==
    { {}, {"gyoretsu", "konzatsu"}, {"aite"}, {"garagara", "anaba"},
      {"ninki", "suite"} }

NoReviews == [present |-> FALSE, list |-> <<>>]

CrowdReviews ==
    {NoReviews} \cup {[present |-> TRUE, list |-> l] : l \in ListsOver(CrowdTexts, MaxReviews)}

----------------------------------------------------------------------------
(* PlacesService.extractAtmosphereFromReviews *)

\* the keywords array (lines 309-321): the alternatives of each pattern
\* (matched case-insensitively) and its tag
AtmosphereRules == <<
    [alts |-> {"koso", "nagame", "keshiki", "byu", "yakei", "view"}, tag |-> "view"],
    [alts |-> {"ikkenya", "kakurega", "kominka"},                   tag |-> "hideaway"],
    [alts |-> {"koshitsu", "private", "hankoshitsu"},               tag |-> "private-room"],
    [alts |-> {"terrace", "okujo", "open"},                         tag |-> "terrace"],
    [alts |-> {"date", "kinenbi", "tanjobi", "romantic"},           tag |-> "date"],
    [alts |-> {"oshare", "stylish", "modern"},                      tag |-> "stylish"],
    [alts |-> {"ochitsu", "shizuka", "otona", "johin"},             tag |-> "calm"],
    [alts |-> {"hiroi", "kaiho", "yuttari"},                        tag |-> "spacious"],
    [alts |-> {"counter", "hitori", "solo"},                        tag |-> "counter"],
    [alts |-> {"sekkyaku", "service", "hospitality"},               tag |-> "service"],
    [alts |-> {"cospa", "reasonable", "otoku"},                     tag |-> "value"] >>

\* pattern.test(text)
PatternTest(rule, text) == rule.alts \cap text # {}

InSeq(x, q) == \E i \in 1..Len(q) : q[i] = x

\* found.add(tag) without the size test
AddTagNoCap(found, rule, text) ==
    IF PatternTest(rule, text) /\ ~InSeq(rule.tag, found)
    THEN Append(found, rule.tag) ELSE found

\* lines 327-329 for one rule: found.add(tag) when the pattern matches and
\* found.size < 4; a Set keeps insertion order and ignores a second add
AddTag(found, rule, text) ==
    IF PatternTest(rule, text) /\ Len(found) < 4 /\ ~InSeq(rule.tag, found)
    THEN Append(found, rule.tag) ELSE found

\* keywords.forEach over one review text, from rule k on
RECURSIVE ScanRules(_, _, _)
ScanRules(found, text, k) ==
    IF k > Len(AtmosphereRules) THEN found
    ELSE ScanRules(AddTag(found, AtmosphereRules[k], text), text, k + 1)

\* reviews.forEach, from review i on
RECURSIVE ScanReviews(_, _, _)
ScanReviews(found, list, i) ==
    IF i > Len(list) THEN found
    ELSE ScanReviews(ScanRules(found, list[i], 1), list, i + 1)

\* the loops exchanged: every review under rule k before rule k + 1
RECURSIVE ScanRuleMajor(_, _, _, _)
ScanRuleMajor(found, list, k, i) ==
    IF k > Len(AtmosphereRules) THEN found
    ELSE IF i > Len(list) THEN ScanRuleMajor(found, list, k + 1, 1)
    ELSE ScanRuleMajor(AddTag(found, AtmosphereRules[k], list[i]), list, k, i + 1)

extractAtmosphereRuleMajor(list) == ScanRuleMajor(<<>>, list, 1, 1)

\* Array.from(found)
extractAtmosphereFromReviews(list) == ScanReviews(<<>>, list, 1)

TagTexts ==
    { {}, {"yakei"}, {"date"}, {"koshitsu", "terrace"}, {"oshare", "shizuka"},
      {"cospa", "view"} }

TagReviews ==
    {[present |-> TRUE, list |-> l] : l \in ListsOver(TagTexts, MaxTagReviews)}

----------------------------------------------------------------------------
(* UI extractSmokingInfo *)

\* the keywords array (lines 414-418): 喫煙可|喫煙室|喫煙席, 分煙,
\* 完全禁煙|禁煙席|禁煙, with the labels 喫煙可, 分煙, 禁煙
SmokingRules == <<
    [alts |-> {"kitsuen-ka", "kitsuen-shitsu", "kitsuen-seki"}, info |-> "smoking-allowed"],
    [alts |-> {"bunen"},                                        info |-> "separated"],
    [alts |-> {"kanzen-kinen", "kinen-seki", "kinen"},          info |-> "non-smoking"] >>

\* the inner loop (lines 422-426) from rule k on: the label of the first
\* rule matching the text, "null" when none does
RECURSIVE FirstRuleIn(_, _)
FirstRuleIn(text, k) ==
    IF k > Len(SmokingRules) THEN "null"
    ELSE IF PatternTest(SmokingRules[k], text) THEN SmokingRules[k].info
    ELSE FirstRuleIn(text, k + 1)

\* the outer loop (lines 420-427) from review i on
RECURSIVE ScanSmoking(_, _)
ScanSmoking(list, i) ==
    IF i > Len(list) THEN "null"
    ELSE IF FirstRuleIn(list[i], 1) # "null" THEN FirstRuleIn(list[i], 1)
    ELSE ScanSmoking(list, i + 1)

\* the loops exchanged: rule k over every review before rule k + 1
RECURSIVE ScanSmokingRuleMajor(_, _, _)
ScanSmokingRuleMajor(list, k, i) ==
    IF k > Len(SmokingRules) THEN "null"
    ELSE IF i > Len(list) THEN ScanSmokingRuleMajor(list, k + 1, 1)
    ELSE IF PatternTest(SmokingRules[k], list[i]) THEN SmokingRules[k].info
    ELSE ScanSmokingRuleMajor(list, k, i + 1)

extractSmokingRuleMajor(list) == ScanSmokingRuleMajor(list, 1, 1)

extractSmokingInfo(list) == ScanSmoking(list, 1)

\* a text with 禁煙席 holds 禁煙 too
SmokingTexts ==
    { {}, {"oshare"}, {"kitsuen-seki"}, {"bunen"}, {"kinen"}, {"bunen", "kinen"},
      {"kinen-seki", "kinen", "kitsuen-ka"} }

SmokingReviews ==
    {[present |-> TRUE, list |-> l] : l \in ListsOver(SmokingTexts, MaxSmokingReviews)}

----------------------------------------------------------------------------
(* PlacesService.searchNearby *)

\* parseInt(filters.distance): -1 stands for NaN
ParseInt(str) ==
    CASE str = "400" -> 400
      [] str = "800" -> 800
      [] str = "0"   -> 0
      [] str = "-5"  -> -5
      [] OTHER       -> -1

\* const radius = parseInt(filters.distance) || 800;
RadiusDefaultOnly(f) == 800

Radius(f) == IF ParseInt(f.distance) \in {0, -1} THEN 800 ELSE ParseInt(f.distance)

\* CATEGORY_TYPE_MAP[filters.category] || 'restaurant'
CategoryType(f) ==
    IF f.category \in {"restaurant", "cafe", "bar"} THEN f.category ELSE "restaurant"

\* lines 81-92: the keyword list, joined
Keywords(f) ==
    (IF f.cuisine # "null" THEN <<f.cuisine>> ELSE <<>>)
    \o (IF f.smoking = "allowed" THEN <<"kitsuen-ka">>
        ELSE IF f.smoking = "no-smoking" THEN <<"kinen">>
        ELSE <<>>)

\* lines 72-92
BuildRequest(f) ==
    [radius |-> Radius(f), type |-> CategoryType(f), openNow |-> TRUE,
     keyword |-> Keywords(f)]

\* BUDGET_PRICE_MAP: <<min, max>>, <<>> for a key that is not in the map
BudgetPriceMap(budget) ==
    CASE budget = "1000"  -> <<0, 1>>
      [] budget = "3000"  -> <<1, 2>>
      [] budget = "5000"  -> <<2, 3>>
      [] budget = "10000" -> <<3, 4>>
      [] budget = "10001" -> <<3, 4>>
      [] OTHER            -> <<>>

\* lines 203-210
IsOpenOf(p) ==
    IF p.hours = "absent" \/ p.hours = "throws" THEN "null" ELSE p.hours

\* formatPlace; t is what new Date() gives inside estimateCongestion.
\* rating is `place.rating || null` with null as 0.
formatPlace(p, t) ==
    [id |-> p.id, rating |-> p.rating, ratingsTotal |-> p.count,
     priceLevel |-> p.price, isOpen |-> IsOpenOf(p), distance |-> p.dist,
     congestion |-> estimateCongestion(p, t)]

\* line 105
KeepNotClosed(p) == p.isOpen # "false"

KeepOpen(p) == p.isOpen = "true"

\* line 108
KeepNear(p, radius) == p.distance <= radius

\* lines 111-119
KeepAffordableMinOnly(p, f) ==
    IF f.budget = "null" \/ BudgetPriceMap(f.budget) = <<>> THEN TRUE
    ELSE p.priceLevel = -1 \/ p.priceLevel >= BudgetPriceMap(f.budget)[1]

KeepAffordable(p, f) ==
    IF f.budget = "null" \/ BudgetPriceMap(f.budget) = <<>> THEN TRUE
    ELSE \/ p.priceLevel = -1
         \/ /\ p.priceLevel >= BudgetPriceMap(f.budget)[1]
            /\ p.priceLevel <= BudgetPriceMap(f.budget)[2]

\* the three filter() calls
FilterPlaces(list, f) ==
    SelectSeq(list, LAMBDA p : KeepOpen(p) /\ KeepNear(p, Radius(f)) /\ KeepAffordable(p, f))

\* the comparator of lines 122-126: negative when a sorts before b
CompareRatingOnly(a, b) == b.rating - a.rating

Compare(a, b) ==
    LET ratingDiff == b.rating - a.rating
    IN  IF ratingDiff # 0 THEN ratingDiff ELSE b.ratingsTotal - a.ratingsTotal

\* Array.prototype.sort is stable: x goes behind every element that does
\* not sort after it
InsertSorted(sorted, x) ==
    LET behind == {i \in 1..Len(sorted) : Compare(sorted[i], x) <= 0}
        k      == IF behind = {} THEN 0
                  ELSE CHOOSE i \in behind : \A j \in behind : j <= i
    IN  SubSeq(sorted, 1, k) \o <<x>> \o SubSeq(sorted, k + 1, Len(sorted))

RECURSIVE SortFrom(_, _, _)
SortFrom(sorted, list, i) ==
    IF i > Len(list) THEN sorted
    ELSE SortFrom(InsertSorted(sorted, list[i]), list, i + 1)

SortPlaces(list) == SortFrom(<<>>, list, 1)

\* the clock one hour later
NextHour(t) ==
    IF t.hour < 23 THEN [t EXCEPT !.hour = t.hour + 1]
    ELSE [day |-> (t.day + 1) % 7, hour |-> 0, minute |-> t.minute]

\* results.map(place => formatPlace(place, location)): each formatPlace reads
\* the clock anew; the hour changes after the first k records
FormatAll(list, t, k) ==
    [i \in 1..Len(list) |-> formatPlace(list[i], IF i <= k THEN t ELSE NextHour(t))]

\* lines 100, 129, 131: which branch of the callback runs
CallbackBranchNoZero(status, hasResults) ==
    IF status = "OK" /\ hasResults THEN "results" ELSE "error"

CallbackBranch(status, hasResults) ==
    IF status = "OK" /\ hasResults THEN "results"
    ELSE IF status = "ZERO_RESULTS" THEN "empty"
    ELSE "error"

\* lines 132-139
ErrorMessage(status) ==
    CASE status = "REQUEST_DENIED"   -> "denied"
      [] status = "OVER_QUERY_LIMIT" -> "quota"
      [] status = "INVALID_REQUEST"  -> "invalid"
      [] OTHER                       -> "failed"

Template(hours, rating, count, price, dist) == RawPlace(0, hours, rating, count, price, dist)

PlaceTemplates ==
    { Template("true", 45, 10, -1, 300), Template("true", 45, 50, -1, 300),
      Template("true", 30, 999, -1, 300), Template("true", 0, 0, -1, 300),
      Template("false", 50, 600, -1, 300), Template("absent", 50, 600, -1, 300),
      Template("undefined", 50, 600, -1, 300), Template("throws", 50, 600, -1, 300),
      Template("true", 45, 50, 1, 300), Template("true", 45, 50, 3, 300),
      Template("true", 45, 50, -1, 400), Template("true", 45, 50, -1, 401),
      Template("true", 30, 10, 2, 900) }

\* place_id is the position in the results array
WithIds(list) == [i \in 1..Len(list) |-> [list[i] EXCEPT !.id = i]]

RawLists == {WithIds(l) : l \in ListsOver(PlaceTemplates, MaxPlaces)}

NoResults == [present |-> FALSE, list |-> <<>>]

Statuses ==
    {"OK", "ZERO_RESULTS", "REQUEST_DENIED", "OVER_QUERY_LIMIT", "INVALID_REQUEST",
     "UNKNOWN_ERROR"}

Filter(category, distance, budget, smoking, cuisine) ==
    [category |-> category, distance |-> distance, budget |-> budget,
     smoking |-> smoking, cuisine |-> cuisine]

SearchFilters ==
    { Filter("restaurant", "400", "null", "any", "null"),
      Filter("restaurant", "800", "null", "allowed", "ramen"),
      Filter("cafe", "400", "1000", "no-smoking", "null"),
      Filter("bar", "800", "1000", "any", "null"),
      Filter("restaurant", "400", "5000", "any", "sushi"),
      Filter("izakaya", "800", "5000", "allowed", "null") }

SearchNows == { [day |-> 5, hour |-> 13, minute |-> 59] }

\* open records that differ in price_level and distance only
FilterTemplates ==
    { Template("true", 45, 50, -1, 300), Template("true", 45, 50, 0, 300),
      Template("true", 45, 50, 2, 300), Template("true", 45, 50, 4, 300),
      Template("true", 45, 50, -1, 400), Template("true", 45, 50, -1, 401),
      Template("true", 45, 50, 1, 900) }

\* weekday_text with one text on all seven days
SameAllWeek(text) == [present |-> TRUE, entries |-> [i \in 1..7 |-> text]]

\* records that differ in what isOpen() returns and in weekday_text
HoursTemplates ==
    { [Template(h, 45, 50, -1, 300) EXCEPT !.text = wt] :
          h \in {"true", "false"},
          wt \in {NoWeekdayText, SameAllWeek(<<Marker("teikyubi")>>),
                  SameAllWeek(<<Marker("h24")>>)} }
    \cup { [Template("absent", 45, 50, -1, 300) EXCEPT !.text = wt] :
              wt \in {NoWeekdayText, SameAllWeek(<<Marker("h24")>>)} }

HoursRawLists == {WithIds(l) : l \in ListsOver(HoursTemplates, MaxPlaces)}

FilterRawLists == {WithIds(l) : l \in ListsOver(FilterTemplates, MaxPlaces)}

\* filters.distance and filters.budget as any caller may pass them
ProbeFilters ==
    { Filter("restaurant", "400", "null", "any", "null"),
      Filter("restaurant", "400", "1000", "any", "null"),
      Filter("restaurant", "400", "5000", "any", "null"),
      Filter("restaurant", "800", "null", "any", "null"),
      Filter("restaurant", "800", "3000", "any", "null"),
      Filter("restaurant", "800", "10000", "any", "null"),
      Filter("restaurant", "800", "20000", "any", "null"),
      Filter("restaurant", "0", "null", "any", "null"),
      Filter("restaurant", "0", "1000", "any", "null"),
      Filter("restaurant", "abc", "null", "any", "null"),
      Filter("restaurant", "abc", "10001", "any", "null"),
      Filter("restaurant", "-5", "null", "any", "null") }

----------------------------------------------------------------------------
(* Specifications: each applies one operation to inputs drawn in Init. *)
(* The state an operation does not touch stays at its idle value.      *)

Midnight == [day |-> 0, hour |-> 0, minute |-> 0]

DefaultFilters == Filter("restaurant", "400", "null", "any", "null")

HoursIdle == weekdayText = NoWeekdayText /\ openResult = "none"

CongestionIdle == place = NoPlace /\ congestion = "none"

NoPrevious == [open |-> "none", congestion |-> "none"]

ClockIdle == previous = NoPrevious

\* app.js lines 7-18, the top screen shown
AppIdle ==
    /\ isSearching = FALSE
    /\ screen = "top"
    /\ currentLocation = "null"
    /\ appPlaces = <<>>
    /\ toast = "none"
    /\ runs = <<>>
    /\ lastEnd = "none"
    /\ geoRequests = 0
    /\ searchRequests = 0
    /\ invocations = 0

\* a row of the modal that is hidden and empty
EmptyRow == [hidden |-> TRUE, of |-> 0]

ModalIdle ==
    /\ modalOpen = FALSE
    /\ modalPlace = 0
    /\ hoursRow = EmptyRow
    /\ appeal = EmptyRow
    /\ smokingRow = EmptyRow
    /\ pending = <<>>

UIIdle == AppIdle /\ ModalIdle

ReviewIdle ==
    reviews = NoReviews /\ crowdResult = "none" /\ tags = <<>> /\ smokingInfo = "none"

SearchIdle ==
    /\ service = FALSE
    /\ filters = DefaultFilters
    /\ request = "none"
    /\ searchStatus = "none"
    /\ rawResults = NoResults
    /\ places = <<>>
    /\ errorMsg = "none"
    /\ settled = 0

InitHours ==
    /\ weekdayText \in WeekdayTexts
    /\ now \in Nows
    /\ openResult = "none"
    /\ CongestionIdle /\ ReviewIdle /\ SearchIdle
    /\ ClockIdle /\ UIIdle
    /\ pc = "start"

IsCurrentlyOpenCall ==
    /\ pc = "start"
    /\ openResult' = isCurrentlyOpen(weekdayText, now)
    /\ pc' = "done"
    /\ UNCHANGED <<weekdayText, now, congestionVars, reviewVars, searchVars, clockVars,
                   uiVars>>

NextHours == IsCurrentlyOpenCall

SpecHours == InitHours /\ [][NextHours]_vars

InitCongestion ==
    /\ place \in CongestionPlaces
    /\ now \in CongestionNows
    /\ congestion = "none"
    /\ HoursIdle /\ ReviewIdle /\ SearchIdle
    /\ ClockIdle /\ UIIdle
    /\ pc = "start"

EstimateCongestionCall ==
    /\ pc = "start"
    /\ congestion' = estimateCongestion(place, now)
    /\ pc' = "done"
    /\ UNCHANGED <<place, now, hoursVars, reviewVars, searchVars, clockVars,
                   uiVars>>

NextCongestion == EstimateCongestionCall

SpecCongestion == InitCongestion /\ [][NextCongestion]_vars

InitCrowd ==
    /\ reviews \in CrowdReviews
    /\ crowdResult = "none"
    /\ tags = <<>>
    /\ smokingInfo = "none"
    /\ now = Midnight
    /\ HoursIdle /\ CongestionIdle /\ SearchIdle
    /\ ClockIdle /\ UIIdle
    /\ pc = "start"

EstimateCongestionFromReviewsCall ==
    /\ pc = "start"
    /\ crowdResult' = estimateCongestionFromReviews(reviews)
    /\ pc' = "done"
    /\ UNCHANGED <<reviews, tags, smokingInfo, now, hoursVars, congestionVars, searchVars, clockVars,
                   uiVars>>

NextCrowd == EstimateCongestionFromReviewsCall

SpecCrowd == InitCrowd /\ [][NextCrowd]_vars

InitTags ==
    /\ reviews \in TagReviews
    /\ crowdResult = "none"
    /\ tags = <<>>
    /\ smokingInfo = "none"
    /\ now = Midnight
    /\ HoursIdle /\ CongestionIdle /\ SearchIdle
    /\ ClockIdle /\ UIIdle
    /\ pc = "start"

ExtractAtmosphereFromReviewsCall ==
    /\ pc = "start"
    /\ tags' = extractAtmosphereFromReviews(reviews.list)
    /\ pc' = "done"
    /\ UNCHANGED <<reviews, crowdResult, smokingInfo, now, hoursVars, congestionVars,
                   searchVars, clockVars,
                   uiVars>>

NextTags == ExtractAtmosphereFromReviewsCall

SpecTags == InitTags /\ [][NextTags]_vars

InitSmoking ==
    /\ reviews \in SmokingReviews
    /\ crowdResult = "none"
    /\ tags = <<>>
    /\ smokingInfo = "none"
    /\ now = Midnight
    /\ HoursIdle /\ CongestionIdle /\ SearchIdle
    /\ ClockIdle /\ UIIdle
    /\ pc = "start"

ExtractSmokingInfoCall ==
    /\ pc = "start"
    /\ smokingInfo' = extractSmokingInfo(reviews.list)
    /\ pc' = "done"
    /\ UNCHANGED <<reviews, crowdResult, tags, now, hoursVars, congestionVars,
                   searchVars, clockVars,
                   uiVars>>

NextSmoking == ExtractSmokingInfoCall

SpecSmoking == InitSmoking /\ [][NextSmoking]_vars

SearchStart(fs) ==
    /\ service \in BOOLEAN
    /\ filters \in fs
    /\ now \in SearchNows
    /\ request = "none"
    /\ searchStatus = "none"
    /\ rawResults = NoResults
    /\ places = <<>>
    /\ errorMsg = "none"
    /\ settled = 0
    /\ HoursIdle /\ CongestionIdle /\ ReviewIdle
    /\ ClockIdle /\ UIIdle
    /\ pc = "start"

InitSearch == SearchStart(SearchFilters)

\* lines 62-95 with the service missing: reject, no request
SearchNearbyUninitialised ==
    /\ pc = "start"
    /\ ~service
    /\ errorMsg' = "uninitialised"
    /\ settled' = settled + 1
    /\ pc' = "rejected"
    /\ UNCHANGED <<service, filters, request, searchStatus, rawResults, places,
                   now, hoursVars, congestionVars, reviewVars, clockVars,
                   uiVars>>

\* lines 62-96: the request is built and handed to service.nearbySearch
SearchNearbyCall ==
    /\ pc = "start"
    /\ service
    /\ request' = BuildRequest(filters)
    /\ pc' = "waiting"
    /\ UNCHANGED <<service, filters, searchStatus, rawResults, places, errorMsg,
                   settled, now, hoursVars, congestionVars, reviewVars, clockVars,
                   uiVars>>

\* lines 100-128: the callback with status OK and a results array out of lists
CallbackOKFrom(lists) ==
    /\ pc = "waiting"
    /\ CallbackBranch("OK", TRUE) = "results"
    /\ \E list \in lists, k \in 0..MaxPlaces :
          /\ k <= Len(list)
          /\ searchStatus' = "OK"
          /\ rawResults' = [present |-> TRUE, list |-> list]
          /\ places' = SortPlaces(FilterPlaces(FormatAll(list, now, k), filters))
          /\ now' = IF k < Len(list) THEN NextHour(now) ELSE now
    /\ settled' = settled + 1
    /\ pc' = "resolved"
    /\ UNCHANGED <<service, filters, request, errorMsg, hoursVars, congestionVars,
                   reviewVars, clockVars,
                   uiVars>>

CallbackOK == CallbackOKFrom(RawLists)

\* lines 129-130: resolve([])
CallbackEmpty ==
    /\ pc = "waiting"
    /\ \E st \in Statuses, res \in {NoResults, [present |-> TRUE, list |-> <<>>]} :
          /\ st = "OK" => ~res.present
          /\ CallbackBranch(st, res.present) = "empty"
          /\ searchStatus' = st
          /\ rawResults' = res
    /\ places' = <<>>
    /\ settled' = settled + 1
    /\ pc' = "resolved"
    /\ UNCHANGED <<service, filters, request, errorMsg, now, hoursVars,
                   congestionVars, reviewVars, clockVars,
                   uiVars>>

\* lines 131-142: reject(new Error(errorMsg))
CallbackFailure ==
    /\ pc = "waiting"
    /\ \E st \in Statuses, res \in {NoResults, [present |-> TRUE, list |-> <<>>]} :
          /\ st = "OK" => ~res.present
          /\ CallbackBranch(st, res.present) = "error"
          /\ searchStatus' = st
          /\ rawResults' = res
          /\ errorMsg' = ErrorMessage(st)
    /\ settled' = settled + 1
    /\ pc' = "rejected"
    /\ UNCHANGED <<service, filters, request, places, now, hoursVars,
                   congestionVars, reviewVars, clockVars,
                   uiVars>>

NextSearch ==
    \/ SearchNearbyUninitialised
    \/ SearchNearbyCall
    \/ CallbackOK
    \/ CallbackEmpty
    \/ CallbackFailure

SpecSearch == InitSearch /\ [][NextSearch]_vars

\* searchNearby with the distance and budget filters varied
InitSearchFilters == SearchStart(ProbeFilters)

CallbackOKFilters == CallbackOKFrom(FilterRawLists)

NextSearchFilters ==
    \/ SearchNearbyUninitialised
    \/ SearchNearbyCall
    \/ CallbackOKFilters
    \/ CallbackEmpty
    \/ CallbackFailure

SpecSearchFilters == InitSearchFilters /\ [][NextSearchFilters]_vars

\* searchNearby over records that carry weekday_text
InitSearchHours == SearchStart({DefaultFilters, Filter("cafe", "800", "1000", "any", "null")})

CallbackOKHours == CallbackOKFrom(HoursRawLists)

NextSearchHours ==
    \/ SearchNearbyUninitialised
    \/ SearchNearbyCall
    \/ CallbackOKHours
    \/ CallbackEmpty
    \/ CallbackFailure

SpecSearchHours == InitSearchHours /\ [][NextSearchHours]_vars

----------------------------------------------------------------------------
(* app.js: startSearch and the buttons of setupEvents *)

\* line 89: if (AppState.isSearching) return;
GuardAbsent(flag) == FALSE

AlreadySearching(flag) == flag

\* what searchNearby may resolve with: ids of places
AppResults == { <<>>, <<1>>, <<2, 1>> }

RemoveAt(seq, i) == SubSeq(seq, 1, i - 1) \o SubSeq(seq, i + 1, Len(seq))

InitApp ==
    /\ AppIdle /\ ModalIdle
    /\ now = Midnight
    /\ HoursIdle /\ CongestionIdle /\ ReviewIdle /\ SearchIdle /\ ClockIdle
    /\ pc = "start"

notAppVars ==
    <<now, pc, hoursVars, congestionVars, reviewVars, searchVars, clockVars, modalVars>>

\* a click on btn-lets-eat or btn-refresh: startSearch up to its first await
StartSearch ==
    /\ invocations < MaxClicks
    /\ invocations' = invocations + 1
    /\ IF AlreadySearching(isSearching)
       THEN UNCHANGED <<isSearching, screen, runs, geoRequests>>
       ELSE /\ isSearching' = TRUE
            /\ screen' = "loading"
            /\ runs' = Append(runs, "locating")
            /\ geoRequests' = geoRequests + 1
    /\ UNCHANGED <<currentLocation, appPlaces, toast, lastEnd, searchRequests, notAppVars>>

\* lines 98-103: getCurrentPosition resolved, searchNearby is called
PositionResolved ==
    \E i \in 1..Len(runs) :
        /\ runs[i] = "locating"
        /\ currentLocation' = "here"
        /\ runs' = [runs EXCEPT ![i] = "searching"]
        /\ searchRequests' = searchRequests + 1
        /\ UNCHANGED <<isSearching, screen, appPlaces, toast, lastEnd, geoRequests,
                       invocations, notAppVars>>

\* lines 110-116 run i: catch and finally
RunFails(i, message) ==
    /\ toast' = message
    /\ screen' = "top"
    /\ isSearching' = FALSE
    /\ runs' = RemoveAt(runs, i)
    /\ lastEnd' = "error"
    /\ UNCHANGED <<currentLocation, appPlaces, geoRequests, searchRequests,
                   invocations, notAppVars>>

\* getCurrentPosition rejected
PositionRejected ==
    \E i \in 1..Len(runs) : runs[i] = "locating" /\ RunFails(i, "location-error")

\* lines 101-108 and 114-116: searchNearby resolved, results shown, finally
SearchResolved ==
    \E i \in 1..Len(runs), list \in AppResults :
        /\ runs[i] = "searching"
        /\ appPlaces' = list
        /\ screen' = "results"
        /\ isSearching' = FALSE
        /\ runs' = RemoveAt(runs, i)
        /\ lastEnd' = "results"
        /\ UNCHANGED <<currentLocation, toast, geoRequests, searchRequests,
                       invocations, notAppVars>>

\* searchNearby rejected
SearchRejected ==
    \E i \in 1..Len(runs) : runs[i] = "searching" /\ RunFails(i, "search-error")

\* a click on btn-back or btn-retry
BackToTop ==
    /\ screen # "top"
    /\ screen' = "top"
    /\ UNCHANGED <<isSearching, currentLocation, appPlaces, toast, runs, lastEnd,
                   geoRequests, searchRequests, invocations, notAppVars>>

NextApp ==
    \/ StartSearch
    \/ PositionResolved
    \/ PositionRejected
    \/ SearchResolved
    \/ SearchRejected
    \/ BackToTop

SpecApp == InitApp /\ [][NextApp]_vars

----------------------------------------------------------------------------
(* location.js: the detail modal *)

\* ids of the places whose cards are on the results screen
ModalPlaces == {1, 2}

\* what getPlaceDetails resolved with, as updateModalWithDetails reads it:
\* todayText is truthy, appealTags is not empty, what extractSmokingInfo gives
DetailResponses ==
    [hours : BOOLEAN, appeal : BOOLEAN, smoking : {"null", "non-smoking"}]

InitModal ==
    /\ AppIdle /\ ModalIdle
    /\ now = Midnight
    /\ HoursIdle /\ CongestionIdle /\ ReviewIdle /\ SearchIdle /\ ClockIdle
    /\ pc = "start"

notModalVars ==
    <<now, pc, hoursVars, congestionVars, reviewVars, searchVars, clockVars, appVars>>

\* lines 258-338: openModal(place) up to the await of getPlaceDetails.
\* modalAppeal is hidden and emptied, modalHoursRow hidden; no line touches
\* modalSmokingRow.
OpenModal ==
    \E p \in ModalPlaces :
        /\ Len(pending) < MaxPending
        /\ modalPlace' = p
        /\ modalOpen' = TRUE
        /\ appeal' = EmptyRow
        /\ hoursRow' = [hoursRow EXCEPT !.hidden = TRUE]
        /\ pending' = Append(pending, p)
        /\ UNCHANGED <<smokingRow, notModalVars>>

\* lines 350-408 for the details d of place p
updateModalWithDetails(p, d) ==
    /\ hoursRow' = IF d.hours THEN [hidden |-> FALSE, of |-> p] ELSE hoursRow
    /\ appeal' = IF d.appeal THEN [hidden |-> FALSE, of |-> p] ELSE appeal
    /\ smokingRow' = IF d.smoking # "null" THEN [hidden |-> FALSE, of |-> p]
                     ELSE [smokingRow EXCEPT !.hidden = TRUE]

\* lines 339-342: a getPlaceDetails call resolved with details
DetailsArrive ==
    \E i \in 1..Len(pending), d \in DetailResponses :
        /\ updateModalWithDetails(pending[i], d)
        /\ pending' = RemoveAt(pending, i)
        /\ UNCHANGED <<modalOpen, modalPlace, notModalVars>>

\* lines 339-344: getPlaceDetails resolved with null (or threw)
DetailsFail ==
    \E i \in 1..Len(pending) :
        /\ pending' = RemoveAt(pending, i)
        /\ UNCHANGED <<modalOpen, modalPlace, hoursRow, appeal, smokingRow, notModalVars>>

\* lines 434-438
CloseModal ==
    /\ modalOpen
    /\ modalOpen' = FALSE
    /\ UNCHANGED <<modalPlace, hoursRow, appeal, smokingRow, pending, notModalVars>>

NextModal ==
    \/ OpenModal
    \/ DetailsArrive
    \/ DetailsFail
    \/ CloseModal

SpecModal == InitModal /\ [][NextModal]_vars

----------------------------------------------------------------------------
(* isCurrentlyOpen and estimateCongestion called twice with the same
   argument, the wall clock moving between the calls *)

ClockTexts ==
    { SameAllWeek(<<Range(7, 0, 20, 0)>>), SameAllWeek(<<Range(18, 0, 2, 0)>>),
      SameAllWeek(<<Marker("h24")>>), SameAllWeek(<<Marker("teikyubi")>>),
      [present |-> TRUE,
       entries |-> WeekList(7, 1, <<Marker("teikyubi")>>, <<Range(11, 30, 14, 0)>>)] }

ClockPlaces ==
    { RawPlace(1, "true", r, c, -1, 300) : r \in {0, 45}, c \in {0, 100, 600} }

ClockNows == [day : {1, 2, 6}, hour : {6, 12, 19, 23}, minute : {0}]

InitClock ==
    /\ \/ weekdayText \in ClockTexts /\ place = NoPlace
       \/ weekdayText = NoWeekdayText /\ place \in ClockPlaces
    /\ now \in ClockNows
    /\ openResult = "none"
    /\ congestion = "none"
    /\ ReviewIdle /\ SearchIdle
    /\ ClockIdle /\ UIIdle
    /\ pc = "start"

\* HoursParser.isCurrentlyOpen(weekdayText)
ClockIsCurrentlyOpenCall ==
    /\ weekdayText.present
    /\ IsCurrentlyOpenCall

\* estimateCongestion(place)
ClockEstimateCongestionCall ==
    /\ place # NoPlace
    /\ EstimateCongestionCall

\* the caller keeps the first results and calls again later: new Date()
\* then gives another value
ClockMoves ==
    /\ pc = "done"
    /\ previous = NoPrevious
    /\ previous' = [open |-> openResult, congestion |-> congestion]
    /\ \E t \in ClockNows : now' = t
    /\ pc' = "start"
    /\ UNCHANGED <<weekdayText, openResult, place, congestion, reviewVars, searchVars,
                   uiVars>>

NextClock ==
    \/ ClockIsCurrentlyOpenCall
    \/ ClockEstimateCongestionCall
    \/ ClockMoves

SpecClock == InitClock /\ [][NextClock]_vars

----------------------------------------------------------------------------
(* Properties of isCurrentlyOpen *)

\* the entry isCurrentlyOpen reads (lines 23-24), "" when it is absent
TodayText ==
    LET i == GoogleDayIndex(now.day) + 1
    IN  IF weekdayText.present /\ i <= Len(weekdayText.entries)
        THEN weekdayText.entries[i] ELSE <<>>

CurrentTimeInMinutes == now.hour * 60 + now.minute

HasClosedMarker(text) == Includes(text, "teikyubi") \/ Includes(text, "kyugyobi")

Has24hMarker(text) == Includes(text, "h24spaced") \/ Includes(text, "h24")

\* today's text is parsed as a time range: no marker, and a range is found
ReadsRange == ~HasClosedMarker(TodayText) /\ ~Has24hMarker(TodayText)
              /\ TimeRangeMatch(TodayText) # <<>>

OpenM == LET m == TimeRangeMatch(TodayText)[1] IN m.oh * 60 + m.om

CloseM == LET m == TimeRangeMatch(TodayText)[1] IN m.ch * 60 + m.cm

AtTime(h, m) == now.hour = h /\ now.minute = m

\* C3: when today's text holds an overnight range (close minute-of-day below
\* open minute-of-day), the verdict is open exactly when the current
\* minute-of-day is >= open or <= close, and closed at every other minute;
\* 18:00-2:00 is open at 23:00 and 01:30 and closed at 10:00 and 03:00.
C3_OvernightRange ==
    (pc = "done" /\ ReadsRange /\ CloseM < OpenM) =>
        /\ openResult = Bool(CurrentTimeInMinutes >= OpenM \/ CurrentTimeInMinutes <= CloseM)
        /\ (TimeRangeMatch(TodayText)[1] = Range(18, 0, 2, 0) =>
              /\ (AtTime(23, 0) \/ AtTime(1, 30)) => openResult = "true"
              /\ (AtTime(10, 0) \/ AtTime(3, 0)) => openResult = "false")

C3_Witness ==
    /\ pc = "done" /\ ReadsRange /\ CloseM < OpenM
    /\ TimeRangeMatch(TodayText)[1] = Range(18, 0, 2, 0)
    /\ AtTime(1, 30) /\ openResult = "true"

\* C4: when today's text holds a same-day range (open <= close), the verdict
\* is open exactly when open <= current minute-of-day <= close, both bounds
\* inclusive; 7:00-20:00 is open at 07:00 and 20:00, closed at 06:59 and 20:01.
C4_SameDayRange ==
    (pc = "done" /\ ReadsRange /\ OpenM <= CloseM) =>
        /\ openResult = Bool(OpenM <= CurrentTimeInMinutes /\ CurrentTimeInMinutes <= CloseM)
        /\ (TimeRangeMatch(TodayText)[1] = Range(7, 0, 20, 0) =>
              /\ (AtTime(7, 0) \/ AtTime(20, 0)) => openResult = "true"
              /\ (AtTime(6, 59) \/ AtTime(20, 1)) => openResult = "false")

C4_Witness ==
    /\ pc = "done" /\ ReadsRange
    /\ TimeRangeMatch(TodayText)[1] = Range(7, 0, 20, 0)
    /\ AtTime(20, 0) /\ openResult = "true"

\* the Monday-first remap of the platform weekday, as the spec states it
MondayFirst(d) == IF d = 0 THEN 6 ELSE d - 1

\* C5: the verdict is unknown (null) whenever weeklyHours is absent or an
\* empty list, and whenever the entry at today's remapped weekday index is
\* absent or empty.
C5_UnknownWithoutHours ==
    LET i == MondayFirst(now.day) + 1
    IN  (pc = "done" /\ (\/ ~weekdayText.present
                         \/ Len(weekdayText.entries) = 0
                         \/ i > Len(weekdayText.entries)
                         \/ weekdayText.entries[i] = <<>>))
        => openResult = "null"

C5_Witness ==
    /\ pc = "done" /\ weekdayText.present
    /\ Len(weekdayText.entries) > 0
    /\ MondayFirst(now.day) + 1 > Len(weekdayText.entries)
    /\ openResult = "null"

\* the list with every entry but the one at 0-based index i replaced by b
OnlyEntry(wt, i, b) ==
    [present |-> wt.present,
     entries |-> [j \in 1..Len(wt.entries) |->
                     IF j = i + 1 THEN wt.entries[j] ELSE b]]

\* C6: the list is indexed with the Monday-first remap of the platform
\* weekday (Sunday 0 reads entry 6, Monday 1 reads entry 0, day d reads entry
\* d-1), and the verdict depends on no other entry of the list.
C6_MondayFirstIndex ==
    LET i == MondayFirst(now.day)
    IN  pc = "done" =>
          /\ (weekdayText.present /\ i + 1 <= Len(weekdayText.entries)
                /\ weekdayText.entries[i + 1] # <<>>)
              => openResult = TodayVerdict(weekdayText.entries[i + 1], CurrentTimeInMinutes)
          /\ \A b \in OtherDayTexts :
                 isCurrentlyOpen(OnlyEntry(weekdayText, i, b), now) = openResult

C6_Witness ==
    /\ pc = "done" /\ now.day = 0 /\ weekdayText.present
    /\ Len(weekdayText.entries) = 7
    /\ weekdayText.entries[7] = <<Marker("h24")>>
    /\ weekdayText.entries[1] = <<Marker("teikyubi")>>
    /\ openResult = "true"

\* C7: when today's text contains a closed-day marker the verdict is closed
\* at every time of day, also when the text holds a 24-hour marker or a time
\* range covering the current time as well.
C7_ClosedMarkerWins ==
    (pc = "done" /\ HasClosedMarker(TodayText)) => openResult = "false"

C7_Witness ==
    /\ pc = "done" /\ HasClosedMarker(TodayText)
    /\ \/ Has24hMarker(TodayText)
       \/ /\ TimeRangeMatch(TodayText) # <<>>
          /\ InRange(TimeRangeMatch(TodayText)[1], CurrentTimeInMinutes)
    /\ openResult = "false"

----------------------------------------------------------------------------
(* Properties of estimateCongestion *)

Max(S) == CHOOSE x \in S : \A y \in S : y <= x

\* C8: the level is decided by total = timeScore + popularityScore, where
\* timeScore is 3 for hours 11-13 and 18-20, 1 for hours 14-17, else 2, plus
\* 1 on Saturday or Sunday, and popularityScore is the single highest of
\* 3 (count > 500), 2 (count > 100), 1 (count > 30), 0, plus 1 when
\* rating >= 4.3; total >= 6 is high, >= 4 medium, >= 2 low, otherwise empty
\* (hour 12, Saturday, 600, 4.5 is high; hour 15, Tuesday, 10, 3.0 is empty).
C8_CongestionLevel ==
    LET peak       == (11..13) \cup (18..20)
        quiet      == 14..17
        timeScore  == (IF now.hour \in peak THEN 3
                       ELSE IF now.hour \in quiet THEN 1 ELSE 2)
                      + (IF now.day \in {6, 0} THEN 1 ELSE 0)
        popularity == Max({0} \cup {k \in 1..3 :
                              place.count > <<30, 100, 500>>[k]})
                      + (IF place.rating >= 43 THEN 1 ELSE 0)
        total      == timeScore + popularity
    IN  pc = "done" =>
          /\ total >= 6 => congestion = "high"
          /\ (total >= 4 /\ total < 6) => congestion = "medium"
          /\ (total >= 2 /\ total < 4) => congestion = "low"
          /\ total < 2 => congestion = "empty"
          /\ (now.hour = 12 /\ now.day = 6 /\ place.count = 600 /\ place.rating = 45)
                => congestion = "high"
          /\ (now.hour = 15 /\ now.day = 2 /\ place.count = 10 /\ place.rating = 30)
                => congestion = "empty"

C8_Witness ==
    /\ pc = "done"
    /\ now.hour = 15 /\ now.day = 2 /\ place.count = 10 /\ place.rating = 30
    /\ congestion = "empty"

----------------------------------------------------------------------------
(* Properties of estimateCongestionFromReviews *)

Min(a, b) == IF a < b THEN a ELSE b

Mentions(text, keywords) == \E k \in 1..Len(keywords) : keywords[k] \in text

\* C9: only the first 5 reviews count, each at most once as crowded and at
\* most once as empty; the result is crowded iff crowdedCount > emptyCount
\* and crowdedCount >= 2, empty iff emptyCount > crowdedCount and
\* emptyCount >= 2, unknown (null) otherwise, also for an absent or empty
\* list; a sixth or later review never changes the result.
C9_ReviewCrowdEstimate ==
    LET first5  == 1..Min(5, Len(reviews.list))
        crowded == Cardinality({i \in first5 : Mentions(reviews.list[i], CrowdedKeywords)})
        empty   == Cardinality({i \in first5 : Mentions(reviews.list[i], EmptyKeywords)})
    IN  pc = "done" =>
          /\ crowdResult \in {"crowded", "empty", "null"}
          /\ crowdResult = "crowded" <=> (crowded > empty /\ crowded >= 2)
          /\ crowdResult = "empty" <=> (empty > crowded /\ empty >= 2)
          /\ (~reviews.present \/ reviews.list = <<>>) => crowdResult = "null"
          /\ crowdResult = estimateCongestionFromReviews(
                 [present |-> reviews.present,
                  list |-> SubSeq(reviews.list, 1, Min(5, Len(reviews.list)))])

\* a sixth review that would tip the balance if it were counted
C9_Witness ==
    /\ pc = "done" /\ Len(reviews.list) = 6
    /\ Cardinality({i \in 1..5 : Mentions(reviews.list[i], CrowdedKeywords)}) = 2
    /\ Cardinality({i \in 1..5 : Mentions(reviews.list[i], EmptyKeywords)}) = 2
    /\ reviews.list[1] = {"gyoretsu", "konzatsu"}
    /\ reviews.list[6] = {"gyoretsu", "konzatsu"}
    /\ crowdResult = "null"

----------------------------------------------------------------------------
(* Properties of extractAtmosphereFromReviews *)

RuleOf(tag) == CHOOSE k \in 1..Len(AtmosphereRules) : AtmosphereRules[k].tag = tag

\* the first review in which the rule of a tag matches
FirstReview(tag) ==
    LET hits == {i \in 1..Len(reviews.list) :
                    PatternTest(AtmosphereRules[RuleOf(tag)], reviews.list[i])}
    IN  CHOOSE i \in hits : \A j \in hits : i <= j

\* C10 as stated: the returned tags are in rule-list order: of any two
\* returned tags, the one whose rule stands earlier in the rule list comes
\* first, whatever the order in which the reviews match.
C10_RuleListOrder ==
    pc = "done" =>
        \A i, j \in 1..Len(tags) : i < j => RuleOf(tags[i]) < RuleOf(tags[j])

\* C10 amended: the returned tags are in order of first match, the reviews
\* scanned in the given order and the rules in rule-list order inside each
\* review: of two returned tags, the one whose rule first matches in an
\* earlier review comes first, and rule-list order decides between two tags
\* that first match in the same review.
C10_FirstMatchOrder ==
    pc = "done" =>
        \A i, j \in 1..Len(tags) : i < j =>
            \/ FirstReview(tags[i]) < FirstReview(tags[j])
            \/ /\ FirstReview(tags[i]) = FirstReview(tags[j])
               /\ RuleOf(tags[i]) < RuleOf(tags[j])

\* a later-listed rule matches in an earlier review than an earlier-listed one
C10_Witness ==
    /\ pc = "done"
    /\ reviews.list = << {"date"}, {"koshitsu", "terrace"}, {"yakei"} >>
    /\ tags = <<"date", "private-room", "terrace", "view">>

----------------------------------------------------------------------------
(* Properties of searchNearby *)

ResultIds == {places[i].id : i \in 1..Len(places)}

\* the candidate of the results array a returned place was made from
RawOf(p) == rawResults.list[p.id]

\* the open-now verdict of a raw candidate: open, closed or unknown
Verdict(raw) ==
    CASE raw.hours = "true"  -> "open"
      [] raw.hours = "false" -> "closed"
      [] OTHER               -> "unknown"

\* C1: every candidate in the sequence search returns has open-now verdict
\* exactly open; a candidate whose verdict is closed or unknown (no
\* opening-hours object, or isOpen() threw) is absent from the result.
C1_OnlyOpenReturned ==
    pc = "resolved" =>
        /\ \A i \in 1..Len(places) :
              places[i].isOpen = "true" /\ Verdict(RawOf(places[i])) = "open"
        /\ \A r \in 1..Len(rawResults.list) :
              Verdict(rawResults.list[r]) \in {"closed", "unknown"} => r \notin ResultIds

C1_Witness ==
    /\ pc = "resolved" /\ Len(rawResults.list) = 3
    /\ rawResults.list[1].hours = "false"
    /\ rawResults.list[2].hours = "true"
    /\ rawResults.list[3].hours = "throws"
    /\ ResultIds = {2}

\* the candidates that pass the three filters, by position in the input
Passing ==
    {r \in 1..Len(rawResults.list) :
        LET raw == rawResults.list[r]
            pr  == BudgetPriceMap(filters.budget)
        IN  /\ Verdict(raw) = "open"
            /\ raw.dist <= request.radius
            /\ (filters.budget # "null" /\ pr # <<>> /\ raw.price # -1)
                  => (pr[1] <= raw.price /\ raw.price <= pr[2])}

\* C2: the returned sequence is a permutation of the candidates that passed
\* all filters, ordered by rating descending (absent as 0), then by rating
\* count descending (absent as 0); candidates equal in both keep their
\* relative order from the input ([4.5, 4.5, 3.0] with counts [10, 50, 999]
\* come out as [4.5/50, 4.5/10, 3.0/999]).
C2_SortedStablePermutation ==
    pc = "resolved" =>
        /\ ResultIds = Passing
        /\ Len(places) = Cardinality(Passing)
        /\ \A i, j \in 1..Len(places) : i < j =>
              LET a == RawOf(places[i])
                  b == RawOf(places[j])
              IN  \/ a.rating > b.rating
                  \/ a.rating = b.rating /\ a.count > b.count
                  \/ a.rating = b.rating /\ a.count = b.count /\ a.id < b.id
        /\ ( /\ Len(rawResults.list) = 3
             /\ Passing = {1, 2, 3}
             /\ [r \in 1..3 |-> <<rawResults.list[r].rating, rawResults.list[r].count>>]
                   = << <<45, 10>>, <<45, 50>>, <<30, 999>> >> )
           => [i \in 1..3 |-> places[i].id] = <<2, 1, 3>>

C2_Witness ==
    /\ pc = "resolved" /\ Passing = {1, 2, 3}
    /\ [r \in 1..3 |-> <<rawResults.list[r].rating, rawResults.list[r].count>>]
          = << <<45, 10>>, <<45, 50>>, <<30, 999>> >>
    /\ [i \in 1..3 |-> places[i].id] = <<2, 1, 3>>

\* tied candidates that stay in input order
C2_WitnessTie ==
    /\ pc = "resolved" /\ Len(places) = 3
    /\ \A i \in 1..3 : places[i].rating = 45 /\ places[i].ratingsTotal = 50
    /\ places[1].priceLevel # places[2].priceLevel
    /\ [i \in 1..3 |-> places[i].id] = <<1, 2, 3>>

\* C11: never more than 4 tags and never a tag twice; once 4 distinct tags
\* are collected later matches neither add nor replace a tag: a prefix of the
\* review list that already yields 4 tags yields the result of the whole list.
C11_CappedPrefixStable ==
    pc = "done" =>
        /\ Len(tags) <= 4
        /\ \A i, j \in 1..Len(tags) : i # j => tags[i] # tags[j]
        /\ \A n \in 0..Len(reviews.list) :
              LET early == extractAtmosphereFromReviews(SubSeq(reviews.list, 1, n))
              IN  Len(early) = 4 => tags = early

\* four tags after two reviews, and a third review matching two more rules
C11_Witness ==
    /\ pc = "done"
    /\ reviews.list = << {"koshitsu", "terrace"}, {"oshare", "shizuka"}, {"cospa", "view"} >>
    /\ tags = <<"private-room", "terrace", "stylish", "calm">>

----------------------------------------------------------------------------
(* Properties of extractSmokingInfo *)

\* the rules of the fixed list that match a text
MatchingRules(text) == {k \in 1..Len(SmokingRules) : SmokingRules[k].alts \cap text # {}}

\* C12: the reviews are scanned in the given order and, inside a review, the
\* rules in priority order (smoking-allowed, separated, non-smoking); the
\* result is the label of the first rule that matches in the first review
\* matched by any rule, and none (null) when no rule matches any review.
C12_FirstReviewFirstRule ==
    LET matched == {i \in 1..Len(reviews.list) : MatchingRules(reviews.list[i]) # {}}
        first   == CHOOSE i \in matched : \A j \in matched : i <= j
        rule    == CHOOSE k \in MatchingRules(reviews.list[first]) :
                       \A m \in MatchingRules(reviews.list[first]) : k <= m
    IN  pc = "done" =>
          /\ matched = {} => smokingInfo = "null"
          /\ matched # {} =>
                smokingInfo = <<"smoking-allowed", "separated", "non-smoking">>[rule]

\* a later review matches a rule of higher priority than the first one does
C12_Witness ==
    /\ pc = "done"
    /\ reviews.list = << {"oshare"}, {"bunen", "kinen"}, {"kitsuen-seki"} >>
    /\ smokingInfo = "separated"

----------------------------------------------------------------------------
(* Properties of the price and distance filters of searchNearby *)

\* the price-tier range given by the filters, <<>> when none is specified
PriceRange == IF filters.budget = "null" THEN <<>> ELSE BudgetPriceMap(filters.budget)

\* the radius the search works with: the parsed integer when it is a
\* number other than 0, else 800
EffectiveRadius ==
    LET n == ParseInt(filters.distance)
    IN  IF n = -1 \/ n = 0 THEN 800 ELSE n

\* C13: with a price-tier range in the filters, every returned candidate has
\* no price tier or min <= price tier <= max; without a range, no candidate
\* is removed for its price tier (every open candidate inside the radius is
\* returned).
C13_PriceTierFilter ==
    (pc = "resolved" /\ searchStatus = "OK") =>
        /\ PriceRange # <<>> =>
              \A i \in 1..Len(places) :
                  \/ places[i].priceLevel = -1
                  \/ /\ PriceRange[1] <= places[i].priceLevel
                     /\ places[i].priceLevel <= PriceRange[2]
        /\ PriceRange = <<>> =>
              \A r \in 1..Len(rawResults.list) :
                  (rawResults.list[r].hours = "true"
                     /\ rawResults.list[r].dist <= EffectiveRadius) => r \in ResultIds

\* a candidate is kept at each end of the range and one without a tier too
C13_Witness ==
    /\ pc = "resolved"
    /\ filters.budget = "3000"
    /\ Len(rawResults.list) = 3
    /\ {rawResults.list[r].price : r \in 1..3} = {-1, 2, 4}
    /\ {places[i].priceLevel : i \in 1..Len(places)} = {-1, 2}

\* C14 as stated: every returned candidate has distance <= the
\* filters' distance, whatever the caller passes (0, unparsable values):
\* with a value that is no number nothing is within it.
C14_WithinPassedDistance ==
    pc = "resolved" =>
        \A i \in 1..Len(places) :
            /\ ParseInt(filters.distance) # -1
            /\ places[i].distance <= ParseInt(filters.distance)

\* C14: every returned candidate has distance <= the radius the search
\* works with, which is the filters' distance parsed as an integer, and 800
\* when that is 0 or not a number.
C14_WithinEffectiveRadius ==
    /\ pc \in {"waiting", "resolved"} => request.radius = EffectiveRadius
    /\ pc = "resolved" =>
          \A i \in 1..Len(places) : places[i].distance <= EffectiveRadius

\* distance "0": a candidate at 401 m is returned, one at 900 m is not
C14_Witness ==
    /\ pc = "resolved"
    /\ filters.distance = "0"
    /\ Len(rawResults.list) = 2
    /\ rawResults.list[1].dist = 401
    /\ rawResults.list[2].dist = 900
    /\ ResultIds = {1}

----------------------------------------------------------------------------
(* Outcomes of searchNearby *)

\* the statuses other than OK and ZERO_RESULTS
HardFailures == Statuses \ {"OK", "ZERO_RESULTS"}

\* the raw records that pass the three filters, from the raw fields
Survivors ==
    {r \in 1..Len(rawResults.list) :
        /\ rawResults.list[r].hours = "true"
        /\ rawResults.list[r].dist <= EffectiveRadius
        /\ \/ PriceRange = <<>>
           \/ rawResults.list[r].price = -1
           \/ /\ PriceRange[1] <= rawResults.list[r].price
              /\ rawResults.list[r].price <= PriceRange[2]}

\* C15: the promise settles exactly once, with one outcome per status:
\* ZERO_RESULTS resolves with the empty array and no error; every other
\* status than OK rejects with an error message and no record is formatted
\* (the clock is not read, no place is produced); OK with a results array
\* resolves, with the empty array when the array is empty or every record is
\* filtered out.
C15_OneOutcomePerStatus ==
    /\ settled = (IF pc \in {"resolved", "rejected"} THEN 1 ELSE 0)
    /\ searchStatus # "none" => pc \in {"resolved", "rejected"}
    /\ searchStatus = "ZERO_RESULTS" =>
          pc = "resolved" /\ places = <<>> /\ errorMsg = "none"
    /\ searchStatus \in HardFailures =>
          /\ pc = "rejected"
          /\ errorMsg \in {"denied", "quota", "invalid", "failed"}
          /\ errorMsg = "denied" <=> searchStatus = "REQUEST_DENIED"
          /\ errorMsg = "quota" <=> searchStatus = "OVER_QUERY_LIMIT"
          /\ errorMsg = "invalid" <=> searchStatus = "INVALID_REQUEST"
          /\ places = <<>>
          /\ now \in SearchNows
    /\ (searchStatus = "OK" /\ rawResults.present) =>
          /\ pc = "resolved"
          /\ errorMsg = "none"
          /\ Survivors = {} => places = <<>>

\* an OK result whose records are all filtered out
C15_Witness ==
    /\ pc = "resolved"
    /\ searchStatus = "OK"
    /\ Len(rawResults.list) = 3
    /\ Survivors = {}
    /\ places = <<>>
    /\ errorMsg = "none"
    /\ settled = 1

C15_WitnessZero ==
    pc = "resolved" /\ searchStatus = "ZERO_RESULTS" /\ places = <<>> /\ settled = 1

C15_WitnessQuota ==
    pc = "rejected" /\ searchStatus = "OVER_QUERY_LIMIT" /\ errorMsg = "quota" /\ settled = 1

----------------------------------------------------------------------------
(* The open-now verdict of searchNearby against HoursParser *)

\* what HoursParser.isCurrentlyOpen gives for a raw record at the instants
\* the clock shows during the search
ParserVerdicts(raw) ==
    {isCurrentlyOpen(raw.text, t) : t \in SearchNows \cup {NextHour(s) : s \in SearchNows}}

\* C16: the verdict attached to each returned candidate, and filtered on, is
\* the one HoursParser.isCurrentlyOpen derives from the candidate's own
\* weekday_text and the current time, not the answer of the transport: a
\* raw record is returned exactly when the parser says open.
C16_VerdictFromHoursParser ==
    (pc = "resolved" /\ searchStatus = "OK") =>
        /\ \A i \in 1..Len(places) : places[i].isOpen \in ParserVerdicts(RawOf(places[i]))
        /\ \A r \in 1..Len(rawResults.list) :
              (rawResults.list[r].dist <= EffectiveRadius /\ "true" \in ParserVerdicts(rawResults.list[r]))
                  => r \in ResultIds

----------------------------------------------------------------------------
(* Time as an input *)

\* C17: time is an explicit input and never read inside the operations:
\* isCurrentlyOpen and estimateCongestion, called a second time with the
\* same argument, return what the first call returned, whatever the clock
\* shows between the calls.
C17_SameArgumentsSameVerdict ==
    (pc = "done" /\ previous # NoPrevious) =>
        /\ openResult = previous.open
        /\ congestion = previous.congestion

----------------------------------------------------------------------------
(* The isSearching guard of startSearch *)

\* a run of startSearch ended in this step
RunEnded == Len(runs') < Len(runs)

\* C18: at most one startSearch run is in flight, whatever the order of the
\* clicks and of the completions of geolocation and search; a startSearch
\* invoked while isSearching is true changes no state and issues no request;
\* isSearching is false after every run that ends, and the top screen is
\* shown after one that ended with an error.
C18_SingleRunInFlight ==
    /\ [](/\ Len(runs) <= 1
          /\ isSearching <=> Len(runs) = 1
          /\ geoRequests <= invocations /\ searchRequests <= geoRequests)
    /\ [][/\ (invocations' # invocations /\ isSearching) =>
                UNCHANGED <<isSearching, screen, currentLocation, appPlaces, toast,
                            runs, lastEnd, geoRequests, searchRequests>>
          /\ RunEnded => ~isSearching'
          /\ (RunEnded /\ lastEnd' = "error") => screen' = "top" /\ toast' # "none"
          /\ (RunEnded /\ lastEnd' = "results") => screen' = "results"]_vars

\* three clicks, the last two while the first run waits: one request
C18_Witness ==
    /\ invocations = 3
    /\ isSearching
    /\ runs = <<"searching">>
    /\ geoRequests = 1
    /\ searchRequests = 1

\* a run has ended with an error and the next one is in flight
C18_WitnessAfterError ==
    lastEnd = "error" /\ isSearching /\ runs = <<"locating">> /\ geoRequests = 2

----------------------------------------------------------------------------
(* The detail rows of the modal *)

\* C19: whatever the order of openModal calls and detail responses, each
\* detail row visible in the modal (today's hours, appeal tags, smoking
\* label) is hidden or made from the details of the place whose modal was
\* opened last.
C19_RowsOfCurrentPlace ==
    modalOpen =>
        \A row \in {hoursRow, appeal, smokingRow} : row.hidden \/ row.of = modalPlace

====
